---- MODULE Spec2Model ----
(***************************************************************************)
(* TapTunes: the RFID presence tracker (python-services/rfid_service.py),  *)
(* the GPIO button dispatcher (python-services/gpio_button_service.py) and *)
(* the service manager (python-services/taptunes_main.py) as state         *)
(* machines.  They are separate OS processes with no shared state, so each *)
(* has its own specification (SpecRfid, SpecGpio, SpecSup).                *)
(***************************************************************************)
EXTENDS Integers, Sequences, FiniteSets

VARIABLES
  last_card_id,        \* rfid_service.main: the last seen card, or None
  card_absent_count,   \* rfid_service.main: consecutive empty reads
  card_id,             \* rfid_service.main: result of read_card() in this iteration
  rfid_pc,             \* position of main's loop: "read", "notify", "save", "stop"
  rfid_calls,          \* HTTP requests posted in the current loop iteration, in order
  poll_start,          \* last_card_id and card_absent_count when the iteration began
  reads                \* the last MaxHist results of read_card(), oldest first

rfid_vars == <<last_card_id, card_absent_count, card_id, rfid_pc, rfid_calls,
               poll_start, reads>>

VARIABLES
  button_states,       \* GPIOButtonService.button_states: stored level per button
  last_press_time,     \* GPIOButtonService.last_press_time: ms, per button
  current_volume,      \* GPIOButtonService.current_volume
  now,                 \* time.time() * 1000, the clock in ms
  btn_idx,             \* check_buttons: position of the loop over GPIO_PINS
  last_check,          \* check_buttons: what the last executed loop body read and did
  gpio_calls,          \* commands sent through api_call by the last loop body
  last_fetch,          \* GET /audio/current of the last loop body: the answer, and
                       \* current_volume before the handler ran
  edge_log,            \* every HIGH -> LOW edge seen so far: button, time, accepted
  held_fires           \* per button: handlers called since its pin last read HIGH

gpio_vars == <<button_states, last_press_time, current_volume, now, btn_idx,
               last_check, gpio_calls, last_fetch, edge_log, held_fires>>

VARIABLES
  sup_pc,              \* position of the service manager's main thread
  backend_process,     \* TapTunesService.backend_process: index in procs, or NoProcess
  rfid_process,        \* TapTunesService.rfid_process
  gpio_process,        \* TapTunesService.gpio_process
  running,             \* TapTunesService.running
  is_root,             \* os.geteuid() == 0
  procs,               \* every process launched with Popen, in launch order
  launching,           \* the process of a Popen whose result is not yet assigned
                       \* to its handle, or NoProcess
  stop_idx,            \* stop_all: position of the loop over processes
  stop_stage,          \* stop_all: "terminate", "wait" or "kill" of that position
  unwind,              \* where SystemExit goes once the running stop_all returns
  stop_all_runs,       \* number of times stop_all was entered
  signals,             \* number of SIGINT/SIGTERM delivered to the service manager
  exit_code,           \* exit status of the service manager, once sup_pc = "done"
  start_call           \* the start routine the last step called, and its outcome

sup_vars == <<sup_pc, backend_process, rfid_process, gpio_process, running, is_root,
              procs, launching, stop_idx, stop_stage, unwind, stop_all_runs, signals,
              exit_code, start_call>>

vars == <<rfid_vars, gpio_vars, sup_vars>>

----------------------------------------------------------------------------
(* Bounds of the model *)

\* length of the recorded window of read_card() results
MaxHist == 7

\* number of HIGH -> LOW edges the buttons produce in a run
MaxPresses == 3

\* number of polling intervals the clock advances in a run
MaxTicks == 5

\* number of different buttons pressed in a run
MaxChannels == 1

\* number of processes the service manager launches in a run
MaxLaunches == 4

\* number of termination signals delivered to the service manager in a run
MaxSignals == 1

None == "None"

----------------------------------------------------------------------------
(* GPIO button service: gpio_button_service.py, gpio_config.py *)

\* gpio_config.GPIO_PINS, in the order check_buttons iterates over it
GPIO_PINS == <<"VOLUME_UP", "VOLUME_DOWN", "TRACK_NEXT", "TRACK_PREVIOUS", "PLAY_PAUSE">>

Buttons == {GPIO_PINS[i] : i \in DOMAIN GPIO_PINS}

VOLUME_STEP == 5
VOLUME_MIN == 0
VOLUME_MAX == 100
DEBOUNCE_TIME == 200

\* run, line 196: time.sleep(0.05), in ms
POLL_INTERVAL == 50

\* the clock when the service starts; last_press_time starts at 0, so any
\* start at or after DEBOUNCE_TIME behaves as the real clock does
StartClock == 1000

\* the time from one poll to the next: the sleep alone, or the sleep and the
\* time the handlers of the poll spent waiting for the backend (up to the
\* 2 s timeout of each request)
PollDelays == {POLL_INTERVAL, 2 * POLL_INTERVAL, 5 * POLL_INTERVAL}

\* GPIO.input: a level, or an exception
PinReads == {"HIGH", "LOW", "ERR"}

Min(a, b) == IF a < b THEN a ELSE b
Max(a, b) == IF a > b THEN a ELSE b

\* a volume value: a number, or a JSON value that is not a number
Num(v) == [tag |-> "num", val |-> v]
NotNum == [tag |-> "bad", val |-> 0]
Missing == [tag |-> "missing", val |-> 0]

\* volumes the backend reports; the value is used as received (line 69)
BackendVolumes == {0, 100, 150}

\* answers to GET /audio/current: a failure (exception or status other than
\* 200), or a JSON object whose volume and isPlaying keys may be absent
CurrentReplies ==
  {[ok |-> FALSE, volume |-> Missing, isPlaying |-> FALSE]}
    \cup [ok : {TRUE},
        volume : {Missing, NotNum} \cup {Num(v) : v \in BackendVolumes},
        isPlaying : BOOLEAN]

\* results of api_call: a truthy JSON body, a falsy JSON body of a successful
\* request, or None (status other than 200/201, timeout, connection error)
PostOutcomes == {"ok", "empty", "fail"}

is_debounced_strict(current_time, last_time) == current_time - last_time > DEBOUNCE_TIME

\* is_debounced, line 58
is_debounced(current_time, last_time) == current_time - last_time >= DEBOUNCE_TIME

LastPressAfter_stale(current_time, last_time, accepted) == last_time

LastPressAfter_always(current_time, last_time, accepted) == current_time

\* is_debounced, lines 58-61: the time is stored only when the press is accepted
LastPressAfter(current_time, last_time, accepted) ==
  IF accepted THEN current_time ELSE last_time

StoredLevelAfter_onDispatch(previous_state, current_state, fired) ==
  IF fired \/ current_state = "HIGH" THEN current_state ELSE previous_state

\* check_buttons, line 177
StoredLevelAfter(previous_state, current_state, fired) == current_state

\* check_buttons, line 162: a press is a change from HIGH to LOW
IsPress(previous_state, current_state) ==
  current_state = "LOW" /\ previous_state = "HIGH"

\* get_current_volume, lines 63-72
get_current_volume(reply, cur) ==
  IF reply.ok /\ reply.volume # Missing THEN reply.volume ELSE cur

ApiCall(endpoint, volume, result) ==
  [endpoint |-> endpoint, volume |-> volume, result |-> result]

Outcome(vol, calls, raised) == [vol |-> vol, calls |-> calls, raised |-> raised]

handle_volume_optimistic(up, cur, reply, post) ==
  LET fetched == get_current_volume(reply, cur) IN
    IF fetched.tag # "num"
      THEN Outcome(fetched, <<>>, TRUE)
      ELSE LET new_volume == IF up THEN Min(fetched.val + VOLUME_STEP, VOLUME_MAX)
                                   ELSE Max(fetched.val - VOLUME_STEP, VOLUME_MIN)
           IN IF new_volume # fetched.val
                THEN Outcome(Num(new_volume),
                             <<ApiCall("/audio/volume", new_volume, post)>>, FALSE)
                ELSE Outcome(fetched, <<>>, FALSE)

\* handle_volume_up / handle_volume_down, lines 99-121; new_volume is
\* min(v + VOLUME_STEP, VOLUME_MAX) or max(v - VOLUME_STEP, VOLUME_MIN), and
\* the arithmetic raises TypeError on a value that is not a number
handle_volume(up, cur, reply, post) ==
  LET fetched == get_current_volume(reply, cur) IN
    IF fetched.tag # "num"
      THEN Outcome(fetched, <<>>, TRUE)
      ELSE LET new_volume == IF up THEN Min(fetched.val + VOLUME_STEP, VOLUME_MAX)
                                   ELSE Max(fetched.val - VOLUME_STEP, VOLUME_MIN)
           IN IF new_volume # fetched.val
                THEN Outcome(IF post = "ok" THEN Num(new_volume) ELSE fetched,
                             <<ApiCall("/audio/volume", new_volume, post)>>, FALSE)
                ELSE Outcome(fetched, <<>>, FALSE)

handle_track_retry(endpoint, cur, post) ==
  Outcome(cur, IF post = "fail"
                 THEN <<ApiCall(endpoint, 0, post), ApiCall(endpoint, 0, post)>>
                 ELSE <<ApiCall(endpoint, 0, post)>>, FALSE)

\* handle_track_next / handle_track_previous, lines 123-131
handle_track(endpoint, cur, post) == Outcome(cur, <<ApiCall(endpoint, 0, post)>>, FALSE)

handle_play_pause_guess(cur, reply, post) ==
  Outcome(cur, <<ApiCall(IF reply.ok /\ reply.isPlaying THEN "/audio/pause" ELSE "/audio/play",
                         0, post)>>, FALSE)

\* handle_play_pause, lines 133-152
handle_play_pause(cur, reply, post) ==
  IF reply.ok
    THEN Outcome(cur, <<ApiCall(IF reply.isPlaying THEN "/audio/pause" ELSE "/audio/play",
                                0, post)>>, FALSE)
    ELSE Outcome(cur, <<>>, FALSE)

\* check_buttons, lines 165-174: the handler of a button
Handle(button_name, cur, reply, post) ==
  CASE button_name = "VOLUME_UP"      -> handle_volume(TRUE, cur, reply, post)
    [] button_name = "VOLUME_DOWN"    -> handle_volume(FALSE, cur, reply, post)
    [] button_name = "TRACK_NEXT"     -> handle_track("/audio/next", cur, post)
    [] button_name = "TRACK_PREVIOUS" -> handle_track("/audio/previous", cur, post)
    [] button_name = "PLAY_PAUSE"     -> handle_play_pause(cur, reply, post)

Check(button_name, current_state, previous_state, fired, raised) ==
  [button_name |-> button_name, current_state |-> current_state,
   previous_state |-> previous_state, fired |-> fired, raised |-> raised]

\* the handlers that begin with GET /audio/current (lines 102, 114, 139)
FetchesCurrent(button_name) == button_name \in {"VOLUME_UP", "VOLUME_DOWN", "PLAY_PAUSE"}

FailedReply == [ok |-> FALSE, volume |-> Missing, isPlaying |-> FALSE]

Fetch(reply, before) == [used |-> TRUE, reply |-> reply, before |-> before]

NoFetch == [used |-> FALSE, reply |-> FailedReply, before |-> Num(0)]

\* the pin read of line 158 and the handler call of lines 163-174
HeldFiresAfter(n, current_state, fired) ==
  IF current_state = "HIGH" THEN 0 ELSE IF fired THEN n + 1 ELSE n

Edge(button_name, time, accepted) ==
  [button_name |-> button_name, time |-> time, accepted |-> accepted]

\* __init__ and setup_gpio, lines 22-51
InitGpioVars ==
  /\ button_states = [b \in Buttons |-> "HIGH"]
  /\ last_press_time = [b \in Buttons |-> 0]
  /\ current_volume = Num(75)
  /\ now = StartClock
  /\ btn_idx = 1
  /\ last_check = Check(None, "HIGH", "HIGH", FALSE, FALSE)
  /\ gpio_calls = <<>>
  /\ last_fetch = NoFetch
  /\ edge_log = <<>>
  /\ held_fires = [b \in Buttons |-> 0]

\* check_buttons, lines 157-180: the loop body for one button
CheckButton ==
  /\ btn_idx \in DOMAIN GPIO_PINS
  /\ btn_idx' = btn_idx + 1
  /\ now' = now
  /\ LET button_name == GPIO_PINS[btn_idx]
         previous_state == button_states[button_name]
     IN \E current_state \in PinReads :
          \* the buttons go down at most MaxPresses times in a run, and at
          \* most MaxChannels different buttons are used
          /\ IsPress(previous_state, current_state) =>
               /\ Len(edge_log) < MaxPresses
               /\ Cardinality({edge_log[i].button_name : i \in DOMAIN edge_log}
                               \cup {button_name}) <= MaxChannels
          /\ IF current_state = "ERR"
               THEN \* GPIO.input raised: lines 179-180
                    /\ last_check' = Check(button_name, current_state, previous_state, FALSE, FALSE)
                    /\ gpio_calls' = <<>>
                    /\ last_fetch' = NoFetch
                    /\ UNCHANGED <<button_states, last_press_time, current_volume, edge_log,
                                   held_fires>>
               ELSE IF ~IsPress(previous_state, current_state)
                 THEN /\ button_states' = [button_states EXCEPT ![button_name] =
                                             StoredLevelAfter(previous_state, current_state, FALSE)]
                      /\ last_check' = Check(button_name, current_state, previous_state, FALSE, FALSE)
                      /\ gpio_calls' = <<>>
                      /\ last_fetch' = NoFetch
                      /\ held_fires' = [held_fires EXCEPT ![button_name] =
                                          HeldFiresAfter(@, current_state, FALSE)]
                      /\ UNCHANGED <<last_press_time, current_volume, edge_log>>
                 ELSE LET accepted == is_debounced(now, last_press_time[button_name]) IN
                      /\ last_press_time' = [last_press_time EXCEPT ![button_name] =
                                               LastPressAfter(now, last_press_time[button_name], accepted)]
                      /\ edge_log' = Append(edge_log, Edge(button_name, now, accepted))
                      /\ held_fires' = [held_fires EXCEPT ![button_name] =
                                          HeldFiresAfter(@, current_state, accepted)]
                      /\ IF accepted
                           THEN \E reply \in CurrentReplies, post \in PostOutcomes :
                                  LET out == Handle(button_name, current_volume, reply, post) IN
                                    /\ current_volume' = out.vol
                                    /\ gpio_calls' = out.calls
                                    /\ last_fetch' = IF FetchesCurrent(button_name)
                                                       THEN Fetch(reply, current_volume)
                                                       ELSE NoFetch
                                    /\ last_check' = Check(button_name, current_state,
                                                           previous_state, TRUE, out.raised)
                                    \* a handler that raises skips line 177
                                    /\ button_states' =
                                         IF out.raised
                                           THEN button_states
                                           ELSE [button_states EXCEPT ![button_name] =
                                                   StoredLevelAfter(previous_state, current_state, TRUE)]
                           ELSE /\ button_states' = [button_states EXCEPT ![button_name] =
                                                       StoredLevelAfter(previous_state, current_state, FALSE)]
                                /\ last_check' = Check(button_name, current_state,
                                                       previous_state, FALSE, FALSE)
                                /\ gpio_calls' = <<>>
                                /\ last_fetch' = NoFetch
                                /\ UNCHANGED current_volume
  /\ UNCHANGED <<rfid_vars, sup_vars>>

\* run, lines 194-196: check_buttons has returned; sleep, then the next poll
Sleep ==
  /\ btn_idx = Len(GPIO_PINS) + 1
  /\ \E d \in PollDelays :
       /\ now + d <= StartClock + MaxTicks * POLL_INTERVAL
       /\ now' = now + d
  /\ btn_idx' = 1
  /\ UNCHANGED <<button_states, last_press_time, current_volume, last_check,
                 gpio_calls, last_fetch, edge_log, held_fires>>
  /\ UNCHANGED <<rfid_vars, sup_vars>>

NextGpio == CheckButton \/ Sleep

----------------------------------------------------------------------------
(* RFID service: rfid_service.py *)

\* the tags the reader can return, already normalised by read_card
Tags == {"X1", "X2"}

\* read_card() returns a card id or None
ReadResults == Tags \cup {None}

REMOVAL_THRESHOLD == 4

\* outcome of a requests.post: an HTTP status code, or ConnError when
\* requests.RequestException is raised (timeout, connection refused)
ConnError == 0

HttpOutcomes == {200, 404, 500, ConnError}

\* BackendClient.notify_card_scan: True only for status 200
notify_card_scan(status) == status = 200

ResetAbsentCount_kept(cnt) == cnt

\* line 204: a read of any card resets the absence counter
ResetAbsentCount(cnt) == 0

IsNewCard_always(c, last) == TRUE

IsNewCard_afterMiss(c, last) == c # last \/ card_absent_count > 0

\* line 206: a card is new when it differs from the last seen card
IsNewCard(c, last) == c # last

LastCardAfterNotify_onSuccess(c, last, success) == IF success THEN c ELSE last

\* line 214: the card becomes the last seen card whether or not the
\* notification succeeded
LastCardAfterNotify(c, last, success) == c

RemovalReached_early(cnt) == cnt >= REMOVAL_THRESHOLD - 1

RemovalReached_late(cnt) == cnt > REMOVAL_THRESHOLD

\* line 221: the removal test
RemovalReached(cnt) == cnt >= REMOVAL_THRESHOLD

AfterSave_abort(status) == IF status = 200 THEN "stop" ELSE "read"

\* BackendClient.stop_playback, lines 157-171: whatever the outcome of the
\* save-position request (its RequestException is caught by the inner try),
\* the stop request follows
AfterSave(status) == "stop"

Call(op, c, status) == [op |-> op, cardId |-> c, status |-> status]

\* the window of the last MaxHist reads
Remember(h, c) == IF Len(h) < MaxHist THEN Append(h, c) ELSE Append(Tail(h), c)

InitRfidVars ==
  /\ last_card_id = None
  /\ card_absent_count = 0
  /\ card_id = None
  /\ rfid_pc = "read"
  /\ rfid_calls = <<>>
  /\ poll_start = [last |-> None, count |-> 0]
  /\ reads = <<>>

\* lines 200-206 and 215-221: one read_card() and the bookkeeping up to the
\* first outbound request of the iteration (or to the end of the iteration
\* when there is none)
ReadCard ==
  /\ rfid_pc = "read"
  /\ \E c \in ReadResults :
       /\ card_id' = c
       /\ reads' = Remember(reads, c)
       /\ rfid_calls' = <<>>
       /\ poll_start' = [last |-> last_card_id, count |-> card_absent_count]
       /\ IF c # None
            THEN /\ card_absent_count' = ResetAbsentCount(card_absent_count)
                 /\ rfid_pc' = IF IsNewCard(c, last_card_id) THEN "notify" ELSE "read"
            ELSE IF last_card_id # None
                   THEN /\ card_absent_count' = card_absent_count + 1
                        /\ rfid_pc' = IF RemovalReached(card_absent_count + 1)
                                        THEN "save" ELSE "read"
                   ELSE /\ card_absent_count' = card_absent_count
                        /\ rfid_pc' = "read"
  /\ UNCHANGED last_card_id
  /\ UNCHANGED <<gpio_vars, sup_vars>>

\* lines 209-214 with BackendClient.notify_card_scan (lines 128-151)
NotifyCardScan ==
  /\ rfid_pc = "notify"
  /\ \E status \in HttpOutcomes :
       /\ rfid_calls' = Append(rfid_calls, Call("card-detected", card_id, status))
       /\ last_card_id' = LastCardAfterNotify(card_id, last_card_id, notify_card_scan(status))
  /\ rfid_pc' = "read"
  /\ UNCHANGED <<card_absent_count, card_id, poll_start, reads>>
  /\ UNCHANGED <<gpio_vars, sup_vars>>

\* BackendClient.stop_playback, lines 157-168: the save-position request
SavePosition ==
  /\ rfid_pc = "save"
  /\ \E status \in {200, 500, ConnError} :
       /\ rfid_calls' = Append(rfid_calls, Call("save-position", last_card_id, status))
       /\ rfid_pc' = AfterSave(status)
  /\ UNCHANGED <<last_card_id, card_absent_count, card_id, poll_start, reads>>
  /\ UNCHANGED <<gpio_vars, sup_vars>>

\* BackendClient.stop_playback, lines 171-185: the stop request, then
\* main lines 225-226
StopPlayback ==
  /\ rfid_pc = "stop"
  /\ \E status \in {200, 500, ConnError} :
       rfid_calls' = Append(rfid_calls, Call("stop", None, status))
  /\ last_card_id' = None
  /\ card_absent_count' = 0
  /\ rfid_pc' = "read"
  /\ UNCHANGED <<card_id, poll_start, reads>>
  /\ UNCHANGED <<gpio_vars, sup_vars>>

NextRfid == ReadCard \/ NotifyCardScan \/ SavePosition \/ StopPlayback

----------------------------------------------------------------------------
(* Service manager: taptunes_main.py *)

NoProcess == 0

NoExit == -1

Workers == {"backend", "rfid", "gpio"}

Auxiliaries == {"rfid", "gpio"}

StopOrder_forward == <<"backend", "rfid", "gpio">>

\* stop_all, lines 168-172: the order of the list of processes
StopOrder == <<"gpio", "rfid", "backend">>

StartupPcs == {"start_backend", "backend_wait", "backend_failed", "start_rfid", "start_gpio"}

\* the positions inside the try block of run, lines 218-219
MonitorPcs == {"mon_backend", "mon_backend_wait", "mon_rfid", "mon_gpio", "mon_sleep"}

\* a process as Popen returns it; hw is the worker's hardware handle:
\* "none", "held" after the worker's setup, "released" after GPIO.cleanup()
Process(worker) ==
  [worker |-> worker, status |-> "running", termed |-> FALSE, killed |-> FALSE,
   hw |-> "none"]

HandleOf(worker) ==
  CASE worker = "backend" -> backend_process
    [] worker = "rfid" -> rfid_process
    [] worker = "gpio" -> gpio_process

\* process.poll() is not None
Exited(h) == procs[h].status = "exited"

NeedsRestart_never(h) == FALSE

NeedsRestart_always(h) == h # NoProcess

NeedsRestart_capped(h) == h # NoProcess /\ procs[h].status = "exited" /\ Len(procs) < 3

NeedsRestart_unlaunched(h) == h = NoProcess \/ procs[h].status = "exited"

\* monitor_processes, lines 143, 148, 153: `proc and proc.poll() is not None`
NeedsRestart(h) == h # NoProcess /\ Exited(h)

\* what a start routine can come to: the script is missing, Popen raises,
\* or Popen returns a process
StartOutcomes == {"missing", "error", "launched"}

AuxOutcomes_unchecked(worker) == StartOutcomes

\* start_gpio, lines 115-132: without root the routine returns before Popen
AuxOutcomes(worker) ==
  IF worker = "gpio" /\ ~is_root THEN {"missing", "skipped"} ELSE StartOutcomes

StartCall(worker, outcome) == [worker |-> worker, outcome |-> outcome]

NoStart == StartCall(None, None)

AfterBackendStart_continue(backend_ok) == "start_rfid"

\* run, lines 199-204
AfterBackendStart(backend_ok) == IF backend_ok THEN "start_rfid" ELSE "backend_failed"

AfterBackendRestart_fatal(backend_ok) == IF backend_ok THEN "mon_rfid" ELSE "backend_failed"

\* monitor_processes, line 145: the result of start_backend is dropped
AfterBackendRestart(backend_ok) == "mon_rfid"

SetHandle(worker, h) ==
  /\ backend_process' = IF worker = "backend" THEN h ELSE backend_process
  /\ rfid_process' = IF worker = "rfid" THEN h ELSE rfid_process
  /\ gpio_process' = IF worker = "gpio" THEN h ELSE gpio_process

\* TapTunesService.__init__, lines 26-30, and main up to line 236
InitSupVars ==
  /\ sup_pc = "main"
  /\ backend_process = NoProcess
  /\ rfid_process = NoProcess
  /\ gpio_process = NoProcess
  /\ running = TRUE
  /\ is_root \in BOOLEAN
  /\ procs = <<>>
  /\ launching = NoProcess
  /\ stop_idx = 1
  /\ stop_stage = "terminate"
  /\ unwind = "none"
  /\ stop_all_runs = 0
  /\ signals = 0
  /\ exit_code = NoExit
  /\ start_call = NoStart

\* the service manager before it has done anything, as the two workers see it
SupIdle == InitSupVars /\ is_root

\* Popen has created the process; the assignment of its result to the
\* handle (lines 59, 94, 122) is a later step of the main thread
Popen(worker) ==
  /\ Len(procs) < MaxLaunches
  /\ procs' = Append(procs, Process(worker))
  /\ launching' = Len(procs) + 1
  /\ UNCHANGED sup_pc

\* start_backend up to the Popen, lines 45-65
start_backend(fail_pc) ==
  /\ launching = NoProcess
  /\ \E outcome \in StartOutcomes :
       /\ start_call' = StartCall("backend", outcome)
       /\ IF outcome = "launched"
            THEN Popen("backend")
            ELSE /\ sup_pc' = fail_pc
                 /\ UNCHANGED <<procs, launching>>
  /\ UNCHANGED <<backend_process, rfid_process, gpio_process>>

\* start_rfid, lines 83-106, and start_gpio, lines 108-136, up to the Popen
start_aux(worker, next_pc) ==
  /\ launching = NoProcess
  /\ \E outcome \in AuxOutcomes(worker) :
       /\ start_call' = StartCall(worker, outcome)
       /\ IF outcome = "launched"
            THEN Popen(worker)
            ELSE /\ sup_pc' = next_pc
                 /\ UNCHANGED <<procs, launching>>
  /\ UNCHANGED <<backend_process, rfid_process, gpio_process>>

\* where a start routine that launched a process returns to
AfterLaunch(pc) ==
  CASE pc = "start_backend" -> "backend_wait"
    [] pc = "start_rfid" -> "start_gpio"
    [] pc = "start_gpio" -> "mon_backend"
    [] pc = "mon_backend" -> "mon_backend_wait"
    [] pc = "mon_rfid" -> "mon_gpio"
    [] pc = "mon_gpio" -> "mon_sleep"

SupFrame == UNCHANGED <<running, is_root, stop_idx, stop_stage, unwind, stop_all_runs,
                        signals, exit_code>>

\* main, lines 239-243: the service is created and given to signal_handler
Main ==
  /\ sup_pc = "main"
  /\ sup_pc' = "start_backend"
  /\ start_call' = NoStart
  /\ UNCHANGED <<backend_process, rfid_process, gpio_process, procs, launching>>
  /\ SupFrame
  /\ UNCHANGED <<rfid_vars, gpio_vars>>

\* run, line 199
StartBackend ==
  /\ sup_pc = "start_backend"
  /\ start_backend(AfterBackendStart(FALSE))
  /\ SupFrame
  /\ UNCHANGED <<rfid_vars, gpio_vars>>

\* start_backend, lines 70-77, then run, lines 200-204
BackendWait ==
  /\ sup_pc = "backend_wait"
  /\ sup_pc' = AfterBackendStart(~Exited(backend_process))
  /\ start_call' = NoStart
  /\ UNCHANGED <<backend_process, rfid_process, gpio_process, procs, launching>>
  /\ SupFrame
  /\ UNCHANGED <<rfid_vars, gpio_vars>>

\* run, line 202: sys.exit(1)
ExitFailure ==
  /\ sup_pc = "backend_failed"
  /\ sup_pc' = "done"
  /\ exit_code' = 1
  /\ start_call' = NoStart
  /\ UNCHANGED <<backend_process, rfid_process, gpio_process, procs, launching, running,
                 is_root, stop_idx, stop_stage, unwind, stop_all_runs, signals>>
  /\ UNCHANGED <<rfid_vars, gpio_vars>>

\* run, line 204
StartRfid ==
  /\ sup_pc = "start_rfid"
  /\ start_aux("rfid", "start_gpio")
  /\ SupFrame
  /\ UNCHANGED <<rfid_vars, gpio_vars>>

\* run, lines 205-219
StartGpio ==
  /\ sup_pc = "start_gpio"
  /\ start_aux("gpio", "mon_backend")
  /\ SupFrame
  /\ UNCHANGED <<rfid_vars, gpio_vars>>

NoRestart(next_pc) ==
  /\ sup_pc' = next_pc
  /\ start_call' = NoStart
  /\ UNCHANGED <<backend_process, rfid_process, gpio_process, procs, launching>>

\* the statement that called Popen stores its result: lines 59, 94, 122
AssignHandle ==
  /\ launching # NoProcess
  /\ SetHandle(procs[launching].worker, launching)
  /\ launching' = NoProcess
  /\ sup_pc' = AfterLaunch(sup_pc)
  /\ start_call' = StartCall(procs[launching].worker, "launched")
  /\ UNCHANGED procs
  /\ SupFrame
  /\ UNCHANGED <<rfid_vars, gpio_vars>>

\* monitor_processes, lines 143-145
MonitorBackend ==
  /\ sup_pc = "mon_backend"
  /\ IF NeedsRestart(backend_process)
       THEN start_backend(AfterBackendRestart(FALSE))
       ELSE NoRestart("mon_rfid")
  /\ SupFrame
  /\ UNCHANGED <<rfid_vars, gpio_vars>>

\* start_backend called from the monitor, lines 70-77: the result is not used
MonitorBackendWait ==
  /\ sup_pc = "mon_backend_wait"
  /\ NoRestart(AfterBackendRestart(~Exited(backend_process)))
  /\ SupFrame
  /\ UNCHANGED <<rfid_vars, gpio_vars>>

\* monitor_processes, lines 148-150
MonitorRfid ==
  /\ sup_pc = "mon_rfid"
  /\ IF NeedsRestart(rfid_process)
       THEN start_aux("rfid", "mon_gpio")
       ELSE NoRestart("mon_gpio")
  /\ SupFrame
  /\ UNCHANGED <<rfid_vars, gpio_vars>>

\* monitor_processes, lines 153-155
MonitorGpio ==
  /\ sup_pc = "mon_gpio"
  /\ IF NeedsRestart(gpio_process)
       THEN start_aux("gpio", "mon_sleep")
       ELSE NoRestart("mon_sleep")
  /\ SupFrame
  /\ UNCHANGED <<rfid_vars, gpio_vars>>

\* stop_all, lines 165-172, entered
EnterStopAll ==
  /\ sup_pc' = "stop_all"
  /\ running' = FALSE
  /\ stop_all_runs' = stop_all_runs + 1
  /\ stop_idx' = 1
  /\ stop_stage' = "terminate"

\* monitor_processes, lines 157 and 140; when the loop ends run goes to its
\* finally, line 223
MonitorSleep ==
  /\ sup_pc = "mon_sleep"
  /\ start_call' = NoStart
  /\ IF running
       THEN /\ sup_pc' = "mon_backend"
            /\ UNCHANGED <<running, stop_idx, stop_stage, stop_all_runs>>
       ELSE EnterStopAll
  /\ UNCHANGED <<backend_process, rfid_process, gpio_process, procs, launching, is_root,
                 unwind, signals, exit_code>>
  /\ UNCHANGED <<rfid_vars, gpio_vars>>

\* signal_handler, lines 225-229, run in the main thread in place of what it
\* was doing.  The handler ends in sys.exit(0), so what it interrupted is
\* never resumed: SystemExit leaves the process, through the finally of run
\* when the main thread was inside the try block of lines 218-219.  A Popen
\* result not yet assigned is lost with the frame that held it.
Signal ==
  /\ sup_pc # "done"
  /\ signals < MaxSignals
  /\ signals' = signals + 1
  /\ start_call' = NoStart
  /\ IF sup_pc = "main"
       THEN /\ sup_pc' = "done"
            /\ exit_code' = 0
            /\ UNCHANGED <<running, stop_idx, stop_stage, unwind, stop_all_runs>>
       ELSE /\ EnterStopAll
            /\ unwind' = IF sup_pc \in MonitorPcs THEN "finally"
                         ELSE IF sup_pc = "stop_all" /\ unwind # "none" THEN unwind
                         ELSE "exit"
            /\ UNCHANGED exit_code
  /\ launching' = NoProcess
  /\ UNCHANGED <<backend_process, rfid_process, gpio_process, procs, is_root>>
  /\ UNCHANGED <<rfid_vars, gpio_vars>>

StopFrame ==
  /\ start_call' = NoStart
  /\ UNCHANGED <<sup_pc, backend_process, rfid_process, gpio_process, launching, running,
                 is_root, unwind, stop_all_runs, signals, exit_code>>
  /\ UNCHANGED <<rfid_vars, gpio_vars>>

\* stop_all, lines 174-178: terminate() signals a process that is running
StopTerminate ==
  /\ sup_pc = "stop_all"
  /\ stop_idx \in DOMAIN StopOrder
  /\ stop_stage = "terminate"
  /\ LET h == HandleOf(StopOrder[stop_idx]) IN
       IF h = NoProcess
         THEN /\ stop_idx' = stop_idx + 1
              /\ UNCHANGED <<procs, stop_stage>>
         ELSE /\ procs' = [procs EXCEPT ![h].termed = @ \/ ~Exited(h)]
              /\ stop_stage' = "wait"
              /\ UNCHANGED stop_idx
  /\ StopFrame

\* stop_all, lines 179-181: the process ends within 5 s, by the default
\* action of SIGTERM and so without running any of its code, or wait raises
\* TimeoutExpired
StopWait ==
  /\ sup_pc = "stop_all"
  /\ stop_idx \in DOMAIN StopOrder
  /\ stop_stage = "wait"
  /\ LET h == HandleOf(StopOrder[stop_idx]) IN
       \/ /\ procs' = [procs EXCEPT ![h].status = "exited"]
          /\ stop_idx' = stop_idx + 1
          /\ stop_stage' = "terminate"
       \/ /\ ~Exited(h)
          /\ stop_stage' = "kill"
          /\ UNCHANGED <<procs, stop_idx>>
  /\ StopFrame

\* stop_all, lines 182-184
StopKill ==
  /\ sup_pc = "stop_all"
  /\ stop_idx \in DOMAIN StopOrder
  /\ stop_stage = "kill"
  /\ LET h == HandleOf(StopOrder[stop_idx]) IN
       procs' = [procs EXCEPT ![h].killed = @ \/ ~Exited(h), ![h].status = "exited"]
  /\ stop_idx' = stop_idx + 1
  /\ stop_stage' = "terminate"
  /\ StopFrame

\* stop_all returns, line 188: to signal_handler line 230, whose SystemExit
\* runs the finally of run (line 223) or ends the process, or to run
StopReturn ==
  /\ sup_pc = "stop_all"
  /\ stop_idx = Len(StopOrder) + 1
  /\ start_call' = NoStart
  /\ IF unwind = "finally"
       THEN /\ EnterStopAll
            /\ unwind' = "none"
            /\ UNCHANGED exit_code
       ELSE /\ sup_pc' = "done"
            /\ exit_code' = 0
            /\ UNCHANGED <<running, stop_idx, stop_stage, unwind, stop_all_runs>>
  /\ UNCHANGED <<backend_process, rfid_process, gpio_process, procs, launching, is_root,
                 signals>>
  /\ UNCHANGED <<rfid_vars, gpio_vars>>

ProcFrame ==
  /\ start_call' = NoStart
  /\ UNCHANGED <<sup_pc, backend_process, rfid_process, gpio_process, launching, running,
                 is_root, stop_idx, stop_stage, unwind, stop_all_runs, signals, exit_code>>
  /\ UNCHANGED <<rfid_vars, gpio_vars>>

\* a worker sets up its hardware: GPIOButtonService.setup_gpio (lines 28-51)
\* and RFIDReader.__init__ of rfid_service.py
ProcAcquire ==
  /\ sup_pc # "done"
  /\ \E p \in DOMAIN procs :
       /\ procs[p].worker \in Auxiliaries
       /\ ~Exited(p)
       /\ procs[p].hw = "none"
       /\ procs' = [procs EXCEPT ![p].hw = "held"]
  /\ ProcFrame

\* a process ends by itself: an exception or KeyboardInterrupt in a worker
\* runs its finally (gpio_button_service.py:200-201, rfid_service.py:235-236)
ProcExit ==
  /\ sup_pc # "done"
  /\ \E p \in DOMAIN procs :
       /\ ~Exited(p)
       /\ procs' = [procs EXCEPT ![p].status = "exited",
                                 ![p].hw = IF @ = "held" THEN "released" ELSE @]
  /\ ProcFrame

NextSup ==
  \/ Main \/ StartBackend \/ BackendWait \/ ExitFailure \/ StartRfid \/ StartGpio
  \/ AssignHandle
  \/ MonitorBackend \/ MonitorBackendWait \/ MonitorRfid \/ MonitorGpio \/ MonitorSleep
  \/ Signal \/ StopTerminate \/ StopWait \/ StopKill \/ StopReturn
  \/ ProcAcquire \/ ProcExit

----------------------------------------------------------------------------
(* Specifications: one per service *)

InitRfid == InitRfidVars /\ InitGpioVars /\ SupIdle

SpecRfid == InitRfid /\ [][NextRfid]_vars

InitGpio == InitRfidVars /\ InitGpioVars /\ SupIdle

SpecGpio == InitGpio /\ [][NextGpio]_vars

InitSup == InitRfidVars /\ InitGpioVars /\ InitSupVars

SpecSup == InitSup /\ [][NextSup]_vars

----------------------------------------------------------------------------
(* Properties of the presence tracker *)

\* a loop iteration has completed and the next read_card() is due
PollDone == rfid_pc = "read"

Suffix(h, n) == SubSeq(h, Len(h) - n + 1, Len(h))

EndsWith(h, suf) == Len(h) >= Len(suf) /\ Suffix(h, Len(suf)) = suf

Nones(k) == [i \in 1..k |-> None]

Ops(calls) == [i \in DOMAIN calls |-> calls[i].op]

HasDeparture(calls) ==
  \E i \in DOMAIN calls : calls[i].op \in {"save-position", "stop"}

\* C1: a departure (save-position / stop, clearing of the current tag) happens
\* only in the iteration whose empty read makes the count of consecutive
\* empty reads reach the removal threshold; a run of fewer than threshold
\* empty reads followed by a read of the same tag posts nothing and leaves
\* the current tag unchanged.
C1_DepartureOnlyAtThreshold ==
  /\ rfid_pc \in {"save", "stop"} =>
       /\ card_id = None
       /\ poll_start.last # None
       /\ poll_start.count = REMOVAL_THRESHOLD - 1
       /\ card_absent_count = REMOVAL_THRESHOLD
  /\ PollDone /\ HasDeparture(rfid_calls) =>
       /\ poll_start.count = REMOVAL_THRESHOLD - 1
       /\ \E t \in Tags : EndsWith(reads, <<t>> \o Nones(REMOVAL_THRESHOLD))
  /\ PollDone /\ last_card_id = None /\ poll_start.last # None =>
       HasDeparture(rfid_calls)
  /\ \A t \in Tags : \A k \in 1..(REMOVAL_THRESHOLD - 1) :
       /\ PollDone /\ EndsWith(reads, <<t>> \o Nones(k)) =>
            rfid_calls = <<>> /\ last_card_id = t /\ card_absent_count = k
       /\ PollDone /\ EndsWith(reads, <<t>> \o Nones(k) \o <<t>>) =>
            rfid_calls = <<>> /\ last_card_id = t

C1_Witness ==
  /\ PollDone
  /\ EndsWith(reads, <<"X1", None, None, None, "X1">>)
  /\ last_card_id = "X1"
  /\ rfid_calls = <<>>

\* C2: a tag followed by exactly four empty reads has its departure in the
\* fourth empty iteration and in no other: save-position and stop are posted
\* there, the current tag is then empty and the count 0; a fifth or later
\* empty read posts nothing, and the next read of any tag, even the same
\* one, posts the arrival in that iteration.
C2_OneDepartureAtThreshold ==
  \A t \in Tags :
    /\ \A k \in 1..3 :
         PollDone /\ EndsWith(reads, <<t>> \o Nones(k)) => ~HasDeparture(rfid_calls)
    /\ PollDone /\ EndsWith(reads, <<t, None, None, None, None>>) =>
         /\ Ops(rfid_calls) = <<"save-position", "stop">>
         /\ rfid_calls[1].cardId = t
         /\ last_card_id = None
         /\ card_absent_count = 0
    /\ PollDone /\ EndsWith(reads, <<None, None, None, None, None>>) =>
         /\ rfid_calls = <<>>
         /\ last_card_id = None
         /\ card_absent_count = 0
    /\ \A u \in Tags :
         PollDone /\ EndsWith(reads, <<t, None, None, None, None, u>>) =>
           /\ Ops(rfid_calls) = <<"card-detected">>
           /\ rfid_calls[1].cardId = u
           /\ last_card_id = u

C2_Witness ==
  /\ PollDone
  /\ reads = <<"X1", "X1", None, None, None, None, "X2">>
  /\ Ops(rfid_calls) = <<"card-detected">>
  /\ rfid_calls[1].cardId = "X2"
  /\ last_card_id = "X2"

\* the iteration began in PendingRemoval: a current tag and 1..threshold-1
\* consecutive empty reads
BeganPending ==
  poll_start.last # None /\ poll_start.count \in 1..(REMOVAL_THRESHOLD - 1)

\* C3: a read of a different tag while a removal is pending posts the arrival
\* of the new tag and nothing else in that iteration, makes it the current
\* tag and resets the count to 0; the empty reads before it do not count
\* against the new tag, and a save-position is only ever posted for the tag
\* that was read last.
C3_DifferentTagCancelsRemoval ==
  /\ PollDone /\ BeganPending /\ card_id \in Tags /\ card_id # poll_start.last =>
       /\ Ops(rfid_calls) = <<"card-detected">>
       /\ rfid_calls[1].cardId = card_id
       /\ last_card_id = card_id
       /\ card_absent_count = 0
  /\ \A t \in Tags : \A u \in Tags \ {t} : \A k \in 1..3 : \A j \in 1..3 :
       PollDone /\ EndsWith(reads, <<t>> \o Nones(k) \o <<u>> \o Nones(j)) =>
         rfid_calls = <<>> /\ last_card_id = u /\ card_absent_count = j
  /\ \A i \in DOMAIN rfid_calls :
       rfid_calls[i].op = "save-position" =>
         /\ rfid_calls[i].cardId = poll_start.last
         /\ \E k \in 1..Len(reads) :
              /\ reads[k] = rfid_calls[i].cardId
              /\ \A m \in (k + 1)..Len(reads) : reads[m] = None

C3_Witness ==
  /\ PollDone
  /\ poll_start = [last |-> "X1", count |-> 2]
  /\ card_id = "X2"
  /\ last_card_id = "X2"
  /\ Len(rfid_calls) = 1

\* C4 as claimed: from PendingRemoval a read of any tag, the pending tag or a
\* different one, ends the iteration in Present with the arrival
\* notification posted in that iteration.
C4_AnyReadNotifies ==
  PollDone /\ BeganPending /\ card_id \in Tags =>
    /\ last_card_id = card_id
    /\ card_absent_count = 0
    /\ \E i \in DOMAIN rfid_calls :
         rfid_calls[i].op = "card-detected" /\ rfid_calls[i].cardId = card_id

\* C4 as amended: from PendingRemoval a read of any tag ends the iteration in
\* Present with the count 0; the arrival notification is posted in that
\* iteration exactly when the tag differs from the pending tag, a read of the
\* pending tag itself posts nothing.
C4_ReadEndsPending ==
  PollDone /\ BeganPending /\ card_id \in Tags =>
    /\ last_card_id = card_id
    /\ card_absent_count = 0
    /\ IF card_id # poll_start.last
         THEN Ops(rfid_calls) = <<"card-detected">> /\ rfid_calls[1].cardId = card_id
         ELSE rfid_calls = <<>>

C4_Witness ==
  /\ PollDone
  /\ poll_start = [last |-> "X1", count |-> 3]
  /\ card_id = "X1"
  /\ last_card_id = "X1"
  /\ card_absent_count = 0
  /\ rfid_calls = <<>>

\* C5: a read of a tag that differs from the current tag resets the count,
\* and the iteration posts exactly one card-detected for it and makes it the
\* current tag whatever the outcome of the post; a read of the current tag
\* resets the count and posts nothing.
C5_Step ==
  /\ rfid_pc = "read" /\ card_id' \in Tags /\ card_id' # last_card_id =>
       /\ rfid_pc' = "notify"
       /\ card_absent_count' = 0
       /\ rfid_calls' = <<>>
  /\ rfid_pc = "read" /\ card_id' \in Tags /\ card_id' = last_card_id =>
       /\ rfid_pc' = "read"
       /\ card_absent_count' = 0
       /\ rfid_calls' = <<>>
       /\ last_card_id' = last_card_id
  /\ rfid_pc = "notify" =>
       /\ rfid_pc' = "read"
       /\ Ops(rfid_calls') = <<"card-detected">>
       /\ rfid_calls'[1].cardId = card_id
       /\ last_card_id' = card_id
       /\ card_absent_count' = 0

C5_ArrivalAndSteadyState == [][C5_Step]_vars

C5_Witness ==
  /\ PollDone
  /\ EndsWith(reads, <<"X2", "X1">>)
  /\ rfid_calls = <<Call("card-detected", "X1", ConnError)>>
  /\ last_card_id = "X1"
  /\ card_absent_count = 0

\* C6: in a departure the save-position for the departing tag is posted
\* first and the stop request after it, whatever the outcome of the save;
\* the current tag is cleared and the count reset only when both were posted.
C6_Step ==
  /\ rfid_pc = "save" =>
       /\ rfid_pc' = "stop"
       /\ Ops(rfid_calls') = <<"save-position">>
       /\ rfid_calls'[1].cardId = last_card_id
       /\ last_card_id' = last_card_id /\ last_card_id # None
       /\ card_absent_count' = card_absent_count
  /\ rfid_pc = "stop" =>
       /\ rfid_pc' = "read"
       /\ Ops(rfid_calls') = <<"save-position", "stop">>
       /\ rfid_calls'[1] = rfid_calls[1]
  /\ last_card_id # None /\ last_card_id' = None =>
       /\ Ops(rfid_calls') = <<"save-position", "stop">>
       /\ rfid_calls'[1].cardId = last_card_id
       /\ card_absent_count' = 0

C6_SaveThenStop == [][C6_Step]_vars

C6_Witness ==
  /\ PollDone
  /\ rfid_calls = <<Call("save-position", "X1", ConnError), Call("stop", None, 200)>>
  /\ last_card_id = None
  /\ card_absent_count = 0

\* an iteration in which card-detected was answered with 404
UnknownCard ==
  /\ PollDone
  /\ Len(rfid_calls) = 1
  /\ rfid_calls[1].op = "card-detected"
  /\ rfid_calls[1].status = 404

\* C7 as claimed: after an iteration whose card-detected was answered 404
\* the current tag and the absence count are what they were before it.
C7_UnknownCardNoChange ==
  UnknownCard =>
    last_card_id = poll_start.last /\ card_absent_count = poll_start.count

\* C7 as amended: after an iteration whose card-detected was answered 404
\* the scanned tag is the current tag and the absence count is 0, as after a
\* successful notification.
C7_UnknownCardRecorded ==
  UnknownCard =>
    /\ last_card_id = card_id
    /\ last_card_id = rfid_calls[1].cardId
    /\ last_card_id # poll_start.last
    /\ card_absent_count = 0

C7_Witness ==
  /\ UnknownCard
  /\ poll_start = [last |-> "X1", count |-> 1]
  /\ card_id = "X2"
  /\ last_card_id = "X2"

----------------------------------------------------------------------------
(* Properties of the debounced dispatcher *)

\* the earlier accepted edges of the channel of edge j
PriorAccepted(j) ==
  {i \in 1..(j - 1) : /\ edge_log[i].button_name = edge_log[j].button_name
                      /\ edge_log[i].accepted}

FirstOnChannel(j) == PriorAccepted(j) = {}

LastAccepted(j) == CHOOSE i \in PriorAccepted(j) : \A k \in PriorAccepted(j) : k <= i

\* ms from the last accepted edge of the channel to edge j
SinceLast(j) == edge_log[j].time - edge_log[LastAccepted(j)].time

\* C8: an edge less than 200 ms after the last accepted edge of its channel
\* dispatches nothing, so two dispatches on a channel are never less than
\* 200 ms apart; an edge more than 200 ms after it, like the first edge of a
\* channel, dispatches an action.
C8_OneActionPerWindow ==
  /\ \A j \in DOMAIN edge_log :
       IF FirstOnChannel(j)
         THEN edge_log[j].accepted
         ELSE /\ SinceLast(j) < 200 => ~edge_log[j].accepted
              /\ SinceLast(j) > 200 => edge_log[j].accepted
  /\ \A i, j \in DOMAIN edge_log :
       /\ i < j
       /\ edge_log[i].button_name = edge_log[j].button_name
       /\ edge_log[i].accepted /\ edge_log[j].accepted
       => edge_log[j].time - edge_log[i].time >= 200
  /\ \A b \in Buttons :
       last_press_time[b] # 0 =>
         \E j \in DOMAIN edge_log : edge_log[j] = Edge(b, last_press_time[b], TRUE)

\* active at 0 ms, inactive at 50 ms, active at 100 ms, active edge at 250 ms
C8_Witness ==
  \E b \in Buttons :
    edge_log = <<Edge(b, StartClock, TRUE), Edge(b, StartClock + 100, FALSE),
                 Edge(b, StartClock + 250, TRUE)>>

\* C9 as claimed: an edge dispatches only if the time since the last accepted
\* edge of its channel is strictly greater than 200 ms; an edge exactly
\* 200 ms after it dispatches nothing.
C9_StrictlyAfterWindow ==
  \A j \in DOMAIN edge_log :
    edge_log[j].accepted <=> (FirstOnChannel(j) \/ SinceLast(j) > 200)

\* C9 as amended: an edge dispatches exactly when the time since the last
\* accepted edge of its channel is at least 200 ms; an edge exactly 200 ms
\* after it dispatches an action.
C9_AtLeastWindow ==
  \A j \in DOMAIN edge_log :
    /\ edge_log[j].accepted <=> (FirstOnChannel(j) \/ SinceLast(j) >= 200)
    /\ ~FirstOnChannel(j) /\ SinceLast(j) = 200 => edge_log[j].accepted

C9_Witness ==
  \E b \in Buttons :
    /\ edge_log = <<Edge(b, StartClock, TRUE), Edge(b, StartClock + 200, TRUE)>>
    /\ last_press_time[b] = StartClock + 200

IsRelease(c) == c.previous_state = "LOW" /\ c.current_state = "HIGH"

IsRejectedPress(c) == IsPress(c.previous_state, c.current_state) /\ ~c.fired

\* C10: a release dispatches nothing, and after the loop body of a release
\* or of a press rejected by the debounce test the stored level of the button
\* is the level that was read; the loop body of one button leaves the
\* stored levels of the other buttons alone.
C10_Recorded ==
  /\ IsRelease(last_check) =>
       /\ ~last_check.fired
       /\ gpio_calls = <<>>
       /\ button_states[last_check.button_name] = "HIGH"
  /\ IsRejectedPress(last_check) =>
       /\ gpio_calls = <<>>
       /\ button_states[last_check.button_name] = "LOW"

C10_Step ==
  /\ \A b \in Buttons :
       btn_idx \in DOMAIN GPIO_PINS /\ b # GPIO_PINS[btn_idx] =>
         button_states'[b] = button_states[b]
  /\ btn_idx \in DOMAIN GPIO_PINS /\ button_states[GPIO_PINS[btn_idx]] = "LOW"
       /\ button_states'[GPIO_PINS[btn_idx]] = "HIGH" =>
         edge_log' = edge_log /\ gpio_calls' = <<>> /\ current_volume' = current_volume
  /\ btn_idx \notin DOMAIN GPIO_PINS => button_states' = button_states

C10_ReleaseAndRejectedPressRecorded == []C10_Recorded /\ [][C10_Step]_vars

C10_Witness ==
  /\ IsRejectedPress(last_check)
  /\ button_states[last_check.button_name] = "LOW"
  /\ Len(edge_log) = 2
  /\ ~edge_log[2].accepted

----------------------------------------------------------------------------
(* Properties of the handlers *)

VolumeButtons == {"VOLUME_UP", "VOLUME_DOWN"}

\* the last loop body ran the handler of a volume button
VolumeHandled == last_check.fired /\ last_check.button_name \in VolumeButtons

\* the volume the handler works from: the one the backend reported, or
\* current_volume as it was when the fetch gave none
CurrentOf(f) == IF f.reply.ok /\ f.reply.volume # Missing THEN f.reply.volume ELSE f.before

Clamp(v) == IF v < 0 THEN 0 ELSE IF v > 100 THEN 100 ELSE v

\* C11: after a volume handler the value sent in a set-volume call and the
\* number stored in current_volume lie within 0..100, whatever volume the
\* handler started from.
C11_VolumeInRange ==
  VolumeHandled =>
    /\ \A i \in DOMAIN gpio_calls :
         gpio_calls[i].endpoint = "/audio/volume" => gpio_calls[i].volume \in 0..100
    /\ current_volume.tag = "num" => current_volume.val \in 0..100

\* C12: a volume handler works from the volume the backend reported, or from
\* current_volume when the fetch gave none; for a numeric volume it sends one
\* set-volume exactly when the step, clamped to 0..100, differs from that
\* volume, and current_volume becomes the value sent only when the call
\* succeeded, else it is the volume the handler worked from.
C12_VolumeCallIffChanged ==
  VolumeHandled /\ CurrentOf(last_fetch).tag = "num" =>
    LET cur == CurrentOf(last_fetch).val
        stepped == IF last_check.button_name = "VOLUME_UP"
                     THEN Clamp(cur + 5) ELSE Clamp(cur - 5)
    IN /\ ~last_check.raised
       /\ gpio_calls # <<>> <=> stepped # cur
       /\ gpio_calls # <<>> =>
            /\ Len(gpio_calls) = 1
            /\ gpio_calls[1].endpoint = "/audio/volume"
            /\ gpio_calls[1].volume # cur
       /\ current_volume =
            IF gpio_calls # <<>> /\ gpio_calls[1].result = "ok"
              THEN Num(gpio_calls[1].volume) ELSE Num(cur)
       /\ (cur = 100 /\ last_check.button_name = "VOLUME_UP") => gpio_calls = <<>>
       /\ (cur = 0 /\ last_check.button_name = "VOLUME_DOWN") => gpio_calls = <<>>

\* the fetch failed, the handler stepped the local 75 and the call failed
C12_Witness ==
  /\ VolumeHandled
  /\ last_check.button_name = "VOLUME_UP"
  /\ ~last_fetch.reply.ok
  /\ last_fetch.before = Num(75)
  /\ gpio_calls = <<ApiCall("/audio/volume", 80, "fail")>>
  /\ current_volume = Num(75)

\* C13: the play-pause handler sends exactly one command when the fetch of
\* the playback state succeeded, pause if playing and play otherwise, and no
\* command at all when the fetch failed.
C13_PlayPauseToggle ==
  last_check.fired /\ last_check.button_name = "PLAY_PAUSE" =>
    /\ last_fetch.used
    /\ ~last_check.raised
    /\ IF last_fetch.reply.ok
         THEN /\ Len(gpio_calls) = 1
              /\ gpio_calls[1].endpoint =
                   IF last_fetch.reply.isPlaying THEN "/audio/pause" ELSE "/audio/play"
         ELSE gpio_calls = <<>>
    /\ current_volume = last_fetch.before

C13_Witness ==
  /\ last_check.fired
  /\ last_check.button_name = "PLAY_PAUSE"
  /\ ~last_fetch.reply.ok
  /\ gpio_calls = <<>>

FailedCommand == gpio_calls # <<>> /\ gpio_calls[Len(gpio_calls)].result = "fail"

\* C14: an activation sends its command at most once, also when the command
\* fails; a failed set-volume leaves current_volume at the volume the handler
\* worked from; the press is recorded, so the next poll does not send it
\* again; and every loop body, whatever its handler did, is followed by the
\* loop body of the next button.
C14_Inv ==
  /\ Len(gpio_calls) <= 1
  /\ FailedCommand /\ VolumeHandled => current_volume = CurrentOf(last_fetch)
  /\ FailedCommand =>
       /\ last_check.fired /\ ~last_check.raised
       /\ button_states[last_check.button_name] = "LOW"

C14_Step ==
  btn_idx \in DOMAIN GPIO_PINS =>
    /\ btn_idx' = btn_idx + 1
    /\ last_check'.button_name = GPIO_PINS[btn_idx]
    /\ now' = now

C14_FailureIsNoOp == []C14_Inv /\ [][C14_Step]_vars

\* the command of the third button failed and the loop is at the fourth
C14_Witness ==
  /\ FailedCommand
  /\ last_check.button_name = "TRACK_NEXT"
  /\ btn_idx = 4


----------------------------------------------------------------------------
(* Properties of the service manager *)

\* the step is one of the main thread's own, not the arrival of a signal
\* and not a step of a launched process
MainStep == sup_pc' # sup_pc /\ sup_pc' # "stop_all"

Launched(worker) == {p \in DOMAIN procs : procs[p].worker = worker}

Live(worker) == {p \in Launched(worker) : ~Exited(p)}

C15_Inv ==
  /\ procs # <<>> => procs[1].worker = "backend"
  /\ sup_pc = "backend_failed" \/ exit_code = 1 =>
       /\ rfid_process = NoProcess /\ gpio_process = NoProcess
       /\ Launched("rfid") = {} /\ Launched("gpio") = {}

C15_Step ==
  MainStep =>
    /\ sup_pc = "start_backend" =>
         /\ start_call'.worker = "backend"
         /\ sup_pc' = IF start_call'.outcome = "launched"
                        THEN "backend_wait" ELSE "backend_failed"
    /\ sup_pc = "backend_wait" =>
         sup_pc' = IF Exited(backend_process) THEN "backend_failed" ELSE "start_rfid"
    /\ sup_pc = "backend_failed" => sup_pc' = "done" /\ exit_code' = 1
    /\ sup_pc = "start_rfid" => start_call'.worker = "rfid" /\ sup_pc' = "start_gpio"
    /\ sup_pc = "start_gpio" => start_call'.worker = "gpio" /\ sup_pc' = "mon_backend"

\* C15: the start routines are called in the order backend, RFID, GPIO; when
\* the backend is missing, cannot be launched or has exited after the 3 s
\* the manager exits with status 1 and no auxiliary worker was ever started;
\* start_gpio is called after start_rfid whatever start_rfid came to.
C15_StartupOrder == []C15_Inv /\ [][C15_Step]_vars

\* the backend was launched, exited at once, and the manager gave up
C15_Witness ==
  /\ sup_pc = "done"
  /\ exit_code = 1
  /\ Len(procs) = 1
  /\ Exited(1)

MonitorPcOf(worker) ==
  CASE worker = "backend" -> "mon_backend"
    [] worker = "rfid" -> "mon_rfid"
    [] worker = "gpio" -> "mon_gpio"

AfterMonitorPc(pc) ==
  CASE pc = "mon_backend" -> {"mon_backend_wait", "mon_rfid"}
    [] pc = "mon_backend_wait" -> {"mon_rfid"}
    [] pc = "mon_rfid" -> {"mon_gpio"}
    [] pc = "mon_gpio" -> {"mon_sleep"}
    [] pc = "mon_sleep" -> {"mon_backend"}

C16_Step ==
  /\ MainStep =>
       /\ sup_pc \in MonitorPcs => sup_pc' \in AfterMonitorPc(sup_pc)
       /\ \A w \in Auxiliaries :
            (sup_pc = MonitorPcOf(w) /\ HandleOf(w) # NoProcess /\ Exited(HandleOf(w))) =>
              /\ start_call'.worker = w
              /\ start_call'.outcome = "launched" =>
                   /\ HandleOf(w)' = Len(procs)
                   /\ HandleOf(w)' # HandleOf(w)
                   /\ procs[Len(procs)].worker = w
              /\ backend_process' = backend_process
              /\ procs' = procs
  /\ \A w \in Auxiliaries :
       (sup_pc = MonitorPcOf(w) /\ Len(procs') > Len(procs)) =>
         /\ Exited(HandleOf(w))
         /\ procs' = Append(procs, Process(w))
         /\ backend_process' = backend_process

\* C16: every monitor cycle checks the backend, the RFID and the GPIO
\* process in turn; when the check of an auxiliary worker finds that the
\* process of its handle has exited, it calls that worker's start routine,
\* which on a successful launch creates one new process of that worker and
\* puts it in the handle, and changes neither backend_process nor the
\* backend's process.
C16_AuxRestart == [][C16_Step]_vars

\* the RFID worker was relaunched by the monitor beside a running backend
C16_Witness ==
  /\ sup_pc = "mon_gpio"
  /\ start_call = StartCall("rfid", "launched")
  /\ backend_process = 1
  /\ ~Exited(1)
  /\ Cardinality(Launched("rfid")) = 2

HasStopped(h) == h = NoProcess \/ Exited(h)

C17_Inv ==
  /\ \A p \in DOMAIN procs : procs[p].killed => procs[p].termed
  /\ (rfid_process # NoProcess /\ procs[rfid_process].termed) => HasStopped(gpio_process)
  /\ (backend_process # NoProcess /\ procs[backend_process].termed) =>
       HasStopped(gpio_process) /\ HasStopped(rfid_process)

C17_Step ==
  /\ \A p \in DOMAIN procs :
       procs'[p].killed /\ ~procs[p].killed =>
         /\ stop_stage = "kill"
         /\ procs[p].termed
         /\ ~Exited(p)
         /\ Exited(p)'
  /\ (stop_stage' = "kill" /\ stop_stage # "kill") =>
       /\ stop_stage = "wait"
       /\ ~Exited(HandleOf(StopOrder[stop_idx]))
  /\ \A p \in DOMAIN procs :
       procs'[p].termed /\ ~procs[p].termed =>
         /\ sup_pc = "stop_all"
         /\ stop_stage' = "wait"

\* C17: stop_all signals the GPIO worker, then the RFID worker, then the
\* backend: a handle's process is sent terminate only when the handles before
\* it are empty or their processes have ended; terminate is followed by the
\* wait, and kill is sent only after the wait timed out on a process that was
\* sent terminate and is still running.
C17_ShutdownOrder == []C17_Inv /\ [][C17_Step]_vars

\* all three were sent terminate, and the GPIO worker had to be killed
C17_Witness ==
  /\ sup_pc = "done"
  /\ gpio_process # NoProcess /\ rfid_process # NoProcess /\ backend_process # NoProcess
  /\ procs[gpio_process].killed
  /\ procs[rfid_process].termed /\ ~procs[rfid_process].killed
  /\ procs[backend_process].termed

\* C18: when the service manager has exited after a termination signal,
\* stop_all was executed exactly once.
C18_StopAllOnce == (sup_pc = "done" /\ signals > 0) => stop_all_runs = 1

\* C19: a worker process that has ended does not hold the hardware handle it
\* acquired: it released it on the way out.
C19_ReleasedOnExit == \A p \in DOMAIN procs : Exited(p) => procs[p].hw # "held"

C20_Inv == \A w \in Workers : Cardinality(Live(w)) <= 1

C20_Step ==
  \A w \in Workers :
    /\ start_call'.worker = w => HasStopped(HandleOf(w))
    /\ HandleOf(w)' # HandleOf(w) =>
         /\ start_call' = StartCall(w, "launched")
         /\ HasStopped(HandleOf(w))
         /\ HandleOf(w)' = Len(procs)
         /\ procs[Len(procs)].worker = w

\* C20: of the processes launched for a worker at most one is running; a
\* start routine is called, and a handle changed, only when the handle is
\* empty or its process has exited, and a changed handle holds the process
\* just launched.
C20_OneLiveProcess == []C20_Inv /\ [][C20_Step]_vars

\* the GPIO worker exited by itself and runs again under a new handle
C20_Witness ==
  /\ gpio_process # NoProcess
  /\ ~Exited(gpio_process)
  /\ \E p \in Launched("gpio") : p < gpio_process /\ Exited(p) /\ ~procs[p].termed


C21_Inv == ~is_root => Launched("gpio") = {} /\ gpio_process = NoProcess

C21_Step ==
  (~is_root /\ sup_pc = "start_gpio" /\ MainStep) =>
    /\ start_call'.worker = "gpio"
    /\ start_call'.outcome \in {"skipped", "missing"}
    /\ procs' = procs
    /\ sup_pc' = "mon_backend"
    /\ exit_code' = NoExit
    /\ UNCHANGED <<backend_process, rfid_process, gpio_process, running>>

\* C21: without root no GPIO process is ever created and gpio_process stays
\* empty; start_gpio returns before Popen, reporting the skip (or the missing
\* script), and run goes on to the monitor loop with the backend and the
\* RFID process untouched.
C21_PrivilegeGate == []C21_Inv /\ [][C21_Step]_vars

\* without root the manager monitors a running backend and RFID worker
C21_Witness ==
  /\ ~is_root
  /\ sup_pc = "mon_sleep"
  /\ backend_process # NoProcess /\ ~Exited(backend_process)
  /\ rfid_process # NoProcess /\ ~Exited(rfid_process)
  /\ gpio_process = NoProcess


\* a step in which the main thread goes on or creates a process, no signal
\* arriving
SupStep == (sup_pc' # sup_pc \/ Len(procs') > Len(procs)) /\ signals' = signals

C22_Step ==
  /\ \A w \in Workers :
       (sup_pc = MonitorPcOf(w) /\ launching = NoProcess /\ SupStep
          /\ HandleOf(w) # NoProcess /\ Exited(HandleOf(w))) =>
         start_call'.worker = w
  /\ (sup_pc = "mon_sleep" /\ SupStep) => sup_pc' = "mon_backend"
  /\ (sup_pc \in MonitorPcs /\ SupStep) => sup_pc' \in AfterMonitorPc(sup_pc) \cup {sup_pc}

\* C22: in every monitor cycle, for each of the three workers, the check
\* that finds the process of the handle exited calls the worker's start
\* routine, however many processes were launched before and whatever the
\* earlier restarts came to; after the sleep the next cycle begins.
C22_RestartEveryCycle == [][C22_Step]_vars

\* the RFID worker has exited twice and was relaunched both times
C22_Witness ==
  /\ sup_pc = "mon_gpio"
  /\ start_call = StartCall("rfid", "launched")
  /\ Cardinality(Launched("rfid")) = 3
  /\ rfid_process = Len(procs)

C23_Inv ==
  signals = 0 =>
    /\ sup_pc \in {"main"} \cup StartupPcs \cup MonitorPcs \/ (sup_pc = "done" /\ exit_code = 1)
    /\ \A p \in DOMAIN procs : ~procs[p].termed /\ ~procs[p].killed

C23_Step ==
  (sup_pc \in MonitorPcs /\ signals' = signals) =>
    /\ sup_pc' \in MonitorPcs
    /\ running'
    /\ exit_code' = NoExit
    /\ \A p \in DOMAIN procs :
         procs'[p] # procs[p] => \A q \in DOMAIN procs : q # p => procs'[q] = procs[q]

\* C23: once run has reached the monitor loop, and until a signal arrives,
\* the manager stays in the loop with running set and no exit status,
\* whichever worker exits and whatever its restart comes to; it sends no
\* terminate and no kill, and the exit of one process changes no other.
C23_ExitNeverFatal == []C23_Inv /\ [][C23_Step]_vars

\* the backend exited, its restart failed, and the loop went on
C23_Witness ==
  /\ sup_pc = "mon_rfid"
  /\ start_call = StartCall("backend", "error")
  /\ Exited(backend_process)
  /\ rfid_process # NoProcess /\ ~Exited(rfid_process)
  /\ signals = 0

C27_Step ==
  \A w \in Auxiliaries :
    (sup_pc \in MonitorPcs /\ HandleOf(w) = NoProcess) =>
      /\ start_call'.worker # w
      /\ HandleOf(w)' = NoProcess
      /\ Launched(w)' = Launched(w)

\* C27: in the monitor loop a start routine is never called for an auxiliary
\* worker whose handle is empty: no process of that worker is created and
\* the handle stays empty.
C27_NoHandleNoRestart == [][C27_Step]_vars

\* start_rfid failed at startup; the monitor relaunched the GPIO worker and
\* never the RFID worker
C27_Witness ==
  /\ sup_pc = "mon_sleep"
  /\ rfid_process = NoProcess
  /\ Launched("rfid") = {}
  /\ Cardinality(Launched("gpio")) = 2
  /\ start_call = StartCall("gpio", "launched")


C28_Inv == sup_pc = "done" => \A p \in DOMAIN procs : Exited(p)

C28_Step == stop_all_runs > 0 => Len(procs') = Len(procs) /\ start_call' = NoStart

\* C28: once stop_all has been entered no start routine is called and no
\* process is created, and when the service manager has exited none of the
\* processes it launched is still running.
C28_NoneLeftRunning == []C28_Inv /\ [][C28_Step]_vars


----------------------------------------------------------------------------
(* State invariant of the tracker *)

\* C24: between two iterations of main's loop card_absent_count is one of
\* 0..3, and it is 0 whenever last_card_id is None: empty reads with no
\* card present are not counted.
C24_CountInRange ==
  PollDone =>
    /\ card_absent_count \in 0..3
    /\ last_card_id = None => card_absent_count = 0

\* three empty reads after a card, one short of the removal
C24_Witness ==
  /\ PollDone
  /\ last_card_id # None
  /\ card_absent_count = 3
  /\ Len(reads) >= 4
  /\ reads[Len(reads) - 3] # None
  /\ EndsWith(reads, <<None, None, None>>)


----------------------------------------------------------------------------
(* Frame of the debounce times, and held buttons *)

C25_Step ==
  \A b \in Buttons :
    last_press_time'[b] # last_press_time[b] =>
      /\ btn_idx \in DOMAIN GPIO_PINS
      /\ GPIO_PINS[btn_idx] = b
      /\ last_check'.button_name = b
      /\ last_check'.fired
      /\ last_press_time'[b] = now
      /\ now - last_press_time[b] >= 200

\* C25: last_press_time of a button changes only in the loop body of that
\* button that calls its handler, and then to the current time; a press
\* rejected inside the 200 ms, a release, a read error and the loop bodies
\* of the other buttons leave it as it was.
C25_StampOnlyOnDispatch == [][C25_Step]_vars

\* a press was rejected and the time of the accepted press before it stands
C25_Witness ==
  /\ Len(edge_log) >= 2
  /\ LET e == edge_log[Len(edge_log)]
         a == edge_log[Len(edge_log) - 1]
     IN /\ ~e.accepted
        /\ a.accepted
        /\ a.button_name = e.button_name
        /\ e.time = now
        /\ last_check.button_name = e.button_name
        /\ last_press_time[e.button_name] = a.time
        /\ a.time < now

\* C26: while the pin of a button reads LOW in poll after poll, with no HIGH
\* read in between, its handler is called at most once.
C26_HeldButtonOnce == \A b \in Buttons : held_fires[b] <= 1

====
